---- MODULE Spec2Model ----
(***************************************************************************)
(* PII masking engine (PIIMasker.mask / PIIMasker.unmask) and the two      *)
(* conversation orchestrators that drive it (CustomerSupportBot in         *)
(* customer_support_bot.py, the Streamlit chat handler in app.py).         *)
(*                                                                         *)
(* Text is a sequence of one-character strings.  Regular expressions are   *)
(* matched the way Python's backtracking `re` matches them: greedy         *)
(* quantifiers, alternatives in priority order, the first success wins.    *)
(***************************************************************************)
EXTENDS Integers, Sequences, FiniteSets, TLC

\* ------------------------------------------------------------------------
\* Character classes of the patterns
\* ------------------------------------------------------------------------
Digit == {"0", "1", "2", "3", "4", "5", "6", "7", "8", "9"}

Lower == {"a", "b", "c", "d", "e", "f", "g", "h", "i", "j", "k", "l", "m",
          "n", "o", "p", "q", "r", "s", "t", "u", "v", "w", "x", "y", "z"}

Upper == {"A", "B", "C", "D", "E", "F", "G", "H", "I", "J", "K", "L", "M",
          "N", "O", "P", "Q", "R", "S", "T", "U", "V", "W", "X", "Y", "Z"}

\* \w of Python's re (on the characters the model uses)
WordChar == Lower \cup Upper \cup Digit \cup {"_"}

\* \s of Python's re (on the characters the model uses)
Space == {" "}

\* [a-zA-Z0-9._%+-]
EmailLocal == Lower \cup Upper \cup Digit \cup {".", "_", "%", "+", "-"}

\* [a-zA-Z0-9.-]
EmailDomain == Lower \cup Upper \cup Digit \cup {".", "-"}

\* ------------------------------------------------------------------------
\* Pattern items: a word boundary \b, or a character class with a greedy
\* repetition {lo,hi}; hi = -1 stands for "no upper limit" (+ and {n,}).
\* ------------------------------------------------------------------------
B == [k |-> "b", cls |-> {}, lo |-> 0, hi |-> 0]

R(cls, lo, hi) == [k |-> "c", cls |-> cls, lo |-> lo, hi |-> hi]

\* \b at position pos (1-based; pos is the index of the next character):
\* exactly one of the two neighbouring characters is a word character.
IsBoundary(t, pos) ==
    LET before == pos > 1 /\ t[pos - 1] \in WordChar
        after == pos <= Len(t) /\ t[pos] \in WordChar
    IN before # after

\* Smallest and largest element of a non-empty set of integers
Min(S) == CHOOSE x \in S : \A y \in S : x <= y

Max(S) == CHOOSE x \in S : \A y \in S : x >= y

\* Number of consecutive characters of cls starting at pos, at most hi.
RunLen(t, pos, cls, hi) ==
    LET avail == Len(t) - pos + 1
        lim == IF hi = -1 \/ hi > avail THEN avail ELSE hi
        stop == {j \in 0..(lim - 1) : t[pos + j] \notin cls}
    IN IF stop = {} THEN lim ELSE Min(stop)

\* Backtracking match of items[i..] at pos: the end position (index of the
\* first character after the match) of the first success, or 0 when there
\* is none.  A greedy repetition takes the longest run first and gives
\* characters back one at a time, down to lo, until the rest matches.
RECURSIVE MatchFrom(_, _, _, _)
MatchFrom(items, i, t, pos) ==
    IF i > Len(items)
    THEN pos
    ELSE IF items[i].k = "b"
         THEN IF IsBoundary(t, pos) THEN MatchFrom(items, i + 1, t, pos) ELSE 0
         ELSE LET run == RunLen(t, pos, items[i].cls, items[i].hi)
                  ok == {n \in items[i].lo..run :
                            MatchFrom(items, i + 1, t, pos + n) # 0}
              IN IF ok = {} THEN 0
                 ELSE MatchFrom(items, i + 1, t, pos + Max(ok))

\* A pattern is a sequence of alternatives in priority order.
RECURSIVE MatchAt(_, _, _, _)
MatchAt(pattern, a, t, pos) ==
    IF a > Len(pattern)
    THEN 0
    ELSE LET e == MatchFrom(pattern[a], 1, t, pos)
         IN IF e # 0 THEN e ELSE MatchAt(pattern, a + 1, t, pos)

\* re.finditer: the non-overlapping matches, left to right, as <<start, end>>
\* (1-based start, end exclusive).  The scan tries every position from pos
\* on, takes the first one where the pattern matches and resumes at the end
\* of that match (no pattern of the table matches the empty string).
RECURSIVE FindFrom(_, _, _, _)
FindFrom(pattern, t, starts, pos) ==
    LET rest == {p \in starts : p >= pos}
    IN IF rest = {}
       THEN <<>>
       ELSE LET p == Min(rest)
                e == MatchAt(pattern, 1, t, p)
            IN <<(<<p, e>>)>> \o FindFrom(pattern, t, starts, e)

FindIter(pattern, t, pos) ==
    FindFrom(pattern, t,
             {p \in pos..Len(t) : MatchAt(pattern, 1, t, p) # 0}, pos)

\* ------------------------------------------------------------------------
\* The pattern table
\* ------------------------------------------------------------------------
\* [a-zA-Z0-9._%+-]+@[a-zA-Z0-9.-]+\.[a-zA-Z]{2,}
EMAIL ==
    << << R(EmailLocal, 1, -1), R({"@"}, 1, 1), R(EmailDomain, 1, -1),
          R({"."}, 1, 1), R(Lower \cup Upper, 2, -1) >> >>

\* \(?\d{3}\)?[\s.-]?\d{3}[\s.-]?\d{4}\b
PhoneTail ==
    << R({"("}, 0, 1), R(Digit, 3, 3), R({")"}, 0, 1),
       R(Space \cup {".", "-"}, 0, 1), R(Digit, 3, 3),
       R(Space \cup {".", "-"}, 0, 1), R(Digit, 4, 4), B >>

\* \b(\+\d{1,3}[\s-]?)?\(?\d{3}\)?[\s.-]?\d{3}[\s.-]?\d{4}\b
\* the optional group is tried first, then the pattern without it
PHONE ==
    << <<B, R({"+"}, 1, 1), R(Digit, 1, 3), R(Space \cup {"-"}, 0, 1)>>
          \o PhoneTail,
       <<B>> \o PhoneTail >>

\* \b\d{3}[-\s]?\d{2}[-\s]?\d{4}\b
SSN ==
    << << B, R(Digit, 3, 3), R(Space \cup {"-"}, 0, 1), R(Digit, 2, 2),
          R(Space \cup {"-"}, 0, 1), R(Digit, 4, 4), B >> >>

\* \b(?:\d{4}[-\s]?){3}\d{4}\b
CC ==
    << << B, R(Digit, 4, 4), R(Space \cup {"-"}, 0, 1),
          R(Digit, 4, 4), R(Space \cup {"-"}, 0, 1),
          R(Digit, 4, 4), R(Space \cup {"-"}, 0, 1),
          R(Digit, 4, 4), B >> >>

\* \b\d{1,3}\.\d{1,3}\.\d{1,3}\.\d{1,3}\b
IP ==
    << << B, R(Digit, 1, 3), R({"."}, 1, 1), R(Digit, 1, 3), R({"."}, 1, 1),
          R(Digit, 1, 3), R({"."}, 1, 1), R(Digit, 1, 3), B >> >>

\* \b[A-Z]{2,4}[-_]?\d{6,10}\b
USER_ID ==
    << << B, R(Upper, 2, 4), R({"-", "_"}, 0, 1), R(Digit, 6, 10), B >> >>

\* \b\d{10,16}\b
ACCOUNT ==
    << << B, R(Digit, 10, 16), B >> >>

\* self.patterns of customer_support_bot.py, in insertion order
BotPatterns ==
    << [label |-> <<"E", "M", "A", "I", "L">>, pattern |-> EMAIL],
       [label |-> <<"P", "H", "O", "N", "E">>, pattern |-> PHONE],
       [label |-> <<"S", "S", "N">>, pattern |-> SSN],
       [label |-> <<"C", "C">>, pattern |-> CC],
       [label |-> <<"I", "P">>, pattern |-> IP],
       [label |-> <<"U", "S", "E", "R", "_", "I", "D">>, pattern |-> USER_ID],
       [label |-> <<"A", "C", "C", "O", "U", "N", "T">>, pattern |-> ACCOUNT] >>

\* self.patterns of app.py, in insertion order
AppPatterns == SubSeq(BotPatterns, 1, 5)

\* the pattern table of the program s, in table (insertion) order
Patterns(s) == IF s = "bot" THEN BotPatterns ELSE AppPatterns

\* a loop that visits the categories last to first
PatternItemsReversed(s) ==
    [i \in DOMAIN Patterns(s) |-> Patterns(s)[Len(Patterns(s)) + 1 - i]]

\* self.patterns.items(): the categories in the order the loop visits them
PatternItems(s) == Patterns(s)

\* ------------------------------------------------------------------------
\* Strings and dictionaries
\* ------------------------------------------------------------------------
\* str(n) for n >= 0: the decimal digits of n
DigitChar(d) ==
    CASE d = 0 -> "0" [] d = 1 -> "1" [] d = 2 -> "2" [] d = 3 -> "3"
      [] d = 4 -> "4" [] d = 5 -> "5" [] d = 6 -> "6" [] d = 7 -> "7"
      [] d = 8 -> "8" [] d = 9 -> "9"

RECURSIVE Str(_)
Str(n) == IF n < 10 THEN <<DigitChar(n)>> ELSE Str(n \div 10) \o <<DigitChar(n % 10)>>

\* str.startswith
StartsWith(s, prefix) ==
    Len(s) >= Len(prefix) /\ SubSeq(s, 1, Len(prefix)) = prefix

\* f'<{pii_type}_'
TokenPrefix(label) == <<"<">> \o label \o <<"_">>

\* f'<{pii_type}_{n}>'
TokenText(label, n) == TokenPrefix(label) \o Str(n) \o <<">">>

RECURSIVE Reverse(_)
Reverse(s) == IF s = <<>> THEN <<>> ELSE Reverse(Tail(s)) \o <<Head(s)>>

\* A dict is the sequence of its items [key, val] in insertion order.
EmptyDict == <<>>

Keys(d) == {d[i].key : i \in DOMAIN d}

Values(d) == {d[i].val : i \in DOMAIN d}

HasKey(d, k) == \E i \in DOMAIN d : d[i].key = k

Get(d, k) == d[CHOOSE i \in DOMAIN d : d[i].key = k].val

\* d[k] = v: an existing key keeps its place and takes the new value,
\* a new key is appended
Put(d, k, v) ==
    IF HasKey(d, k)
    THEN [i \in DOMAIN d |-> IF d[i].key = k THEN [key |-> k, val |-> v] ELSE d[i]]
    ELSE Append(d, [key |-> k, val |-> v])

\* dict.update(other): d[k] = v for every item of other, in its order
RECURSIVE Update(_, _)
Update(d, other) ==
    IF other = <<>> THEN d
    ELSE Update(Put(d, Head(other).key, Head(other).val), Tail(other))

\* a count of all the entries, whatever their category
CountAll(d, prefix) == Len(d)

\* len([k for k in mapping if k.startswith(prefix)])
CountPrefix(d, prefix) ==
    Cardinality({i \in DOMAIN d : StartsWith(d[i].key, prefix)})

\* ------------------------------------------------------------------------
\* PIIMasker.mask
\* ------------------------------------------------------------------------
\* list(re.finditer(pattern, masked_text)), each match with its group(0)
Matches(pattern, t) ==
    LET spans == FindIter(pattern, t, 1)
    IN [i \in DOMAIN spans |->
          [start |-> spans[i][1], end |-> spans[i][2],
           value |-> SubSeq(t, spans[i][1], spans[i][2] - 1)]]

\* a token choice that never consults the reverse index
TokenForNoReuse(label, value, cm, rm) ==
    TokenText(label, CountPrefix(cm, <<"<">> \o label \o <<"_">>) + 1)

\* The token of one match: the one the reverse index already holds for the
\* value, or a new one numbered after the entries of the category so far.
TokenFor(label, value, cm, rm) ==
    IF HasKey(rm, value)
    THEN Get(rm, value)
    ELSE TokenText(label, CountPrefix(cm, TokenPrefix(label)) + 1)

\* a splice that resumes one character late
SpliceOneLate(t, m, token) ==
    SubSeq(t, 1, m.start - 1) \o token \o SubSeq(t, m.end + 1, Len(t))

\* masked_text[:start] + token + masked_text[end:]
Splice(t, m, token) ==
    SubSeq(t, 1, m.start - 1) \o token \o SubSeq(t, m.end, Len(t))

\* The body of the inner loop for one match, on the working copy t and the
\* two instance dictionaries cm (current_mapping) and rm (reverse_mapping).
ProcessMatch(label, m, t, cm, rm) ==
    LET token == TokenFor(label, m.value, cm, rm)
        fresh == ~HasKey(rm, m.value)
    IN [masked_text |-> Splice(t, m, token),
        current_mapping |-> IF fresh THEN Put(cm, token, m.value) ELSE cm,
        reverse_mapping |-> IF fresh THEN Put(rm, m.value, token) ELSE rm]

\* The inner loop over reversed(matches), run to its end.
RECURSIVE ProcessMatches(_, _, _)
ProcessMatches(label, ms, st) ==
    IF ms = <<>> THEN st
    ELSE ProcessMatches(label, Tail(ms),
            ProcessMatch(label, Head(ms), st.masked_text,
                         st.current_mapping, st.reverse_mapping))

\* The outer loop over self.patterns.items(), from category i on.
RECURSIVE ProcessCategories(_, _, _)
ProcessCategories(pats, i, st) ==
    IF i > Len(pats) THEN st
    ELSE ProcessCategories(pats, i + 1,
            ProcessMatches(pats[i].label,
                           Reverse(Matches(pats[i].pattern, st.masked_text)),
                           st))

\* a call that keeps what the last call left in the dictionary
KeepMapping(d) == d

\* self.current_mapping = {} / self.reverse_mapping = {} at the start of
\* mask: the field takes a new, empty dictionary whatever it held (d)
ResetMapping(d) == EmptyDict

\* mask(text) on an instance whose fields hold cm and rm, from its first
\* line to the end of the loops: the working copy and the two instance
\* dictionaries it leaves behind
MaskOn(s, text, cm, rm) ==
    ProcessCategories(PatternItems(s), 1,
        [masked_text |-> text, current_mapping |-> ResetMapping(cm),
         reverse_mapping |-> ResetMapping(rm)])

\* mask(text) on a freshly created instance (__init__ leaves both fields
\* empty)
MaskRun(s, text) == MaskOn(s, text, EmptyDict, EmptyDict)

\* what mask(text) returns when run alone
Mask(s, text) ==
    [masked_text |-> MaskRun(s, text).masked_text,
     mapping |-> MaskRun(s, text).current_mapping]

\* ------------------------------------------------------------------------
\* PIIMasker.unmask
\* ------------------------------------------------------------------------
\* str.replace(old, new, 1): the first occurrence only
ReplaceFirst(t, old, new) ==
    LET occ == {p \in 1..(Len(t) - Len(old) + 1) :
                    SubSeq(t, p, p + Len(old) - 1) = old}
    IN IF occ = {}
       THEN t
       ELSE SubSeq(t, 1, (CHOOSE p \in occ : \A q \in occ : p <= q) - 1) \o new
              \o SubSeq(t, (CHOOSE p \in occ : \A q \in occ : p <= q) + Len(old),
                        Len(t))

\* str.replace(old, new) for a non-empty old: every non-overlapping
\* occurrence, left to right
RECURSIVE Replace(_, _, _)
Replace(t, old, new) ==
    LET occ == {p \in 1..(Len(t) - Len(old) + 1) :
                    SubSeq(t, p, p + Len(old) - 1) = old}
    IN IF occ = {}
       THEN t
       ELSE LET p == Min(occ)
            IN SubSeq(t, 1, p - 1) \o new
                 \o Replace(SubSeq(t, p + Len(old), Len(t)), old, new)

\* an unmask that looks for each token without its closing ">"
RECURSIVE UnmaskByPrefix(_, _)
UnmaskByPrefix(t, mapping) ==
    IF mapping = <<>> THEN t
    ELSE UnmaskByPrefix(
            Replace(t, SubSeq(Head(mapping).key, 1, Len(Head(mapping).key) - 1),
                    Head(mapping).val),
            Tail(mapping))

\* an unmask that returns from inside its loop, after the first entry
UnmaskFirstEntry(t, mapping) ==
    IF mapping = <<>> THEN t
    ELSE Replace(t, Head(mapping).key, Head(mapping).val)

\* for token, original in mapping.items(): result = result.replace(token, original)
RECURSIVE Unmask(_, _)
Unmask(t, mapping) ==
    IF mapping = <<>> THEN t
    ELSE Unmask(Replace(t, Head(mapping).key, Head(mapping).val), Tail(mapping))

\* ------------------------------------------------------------------------
\* Bounds and inputs
\* ------------------------------------------------------------------------
\* longest user text, in segments
MaxSegs == 3

\* callers of mask on one PIIMasker instance
Callers == {1, 2}

Sites == {"bot", "app"}

\* The pieces user texts are made of: a plain word, two e-mail addresses,
\* a ten-digit phone number (which \d{10,16} matches too), a twelve-digit
\* account number, a user id, and a piece of text that has the shape of a
\* token.
Segments ==
    { <<"h", "i">>,
      <<"a", "@", "b", ".", "c", "o">>,
      <<"c", "@", "d", ".", "c", "o">>,
      <<"5", "5", "5", "1", "2", "3", "4", "5", "6", "7">>,
      <<"1", "2", "3", "4", "5", "6", "7", "8", "9", "0", "1", "2">>,
      <<"A", "B", "1", "2", "3", "4", "5", "6">>,
      <<"<", "E", "M", "A", "I", "L", "_", "1", ">">> }

\* the segments joined by single spaces
RECURSIVE Join(_)
Join(segs) ==
    IF segs = <<>> THEN <<>>
    ELSE IF Len(segs) = 1 THEN segs[1]
    ELSE segs[1] \o <<" ">> \o Join(Tail(segs))

InputTexts(max) ==
    UNION {{Join(f) : f \in [1..n -> Segments]} : n \in 0..max}

\* texts a language model may answer with, besides echoing what it was sent
ResponseTexts ==
    { <<"o", "k">>,
      <<"<", "E", "M", "A", "I", "L", "_", "1", ">">>,
      <<"<", "E", "M", "A", "I", "L", "_", "2", ">", "<", "E", "M", "A", "I", "L", "_", "1", ">">>,
      <<"<", "P", "H", "O", "N", "E", "_", "1", ">", " ", "s", "e", "e", " ",
        "<", "E", "M", "A", "I", "L", "_", "9", ">">>,
      <<"<", "<", "E", "M", "A", "I", "L", "_", "1", "0", ">", ">">> }

\* ------------------------------------------------------------------------
\* State
\* ------------------------------------------------------------------------
VARIABLES
    site,              \* which program runs: "bot" or "app"
    current_mapping,   \* PIIMasker.current_mapping
    reverse_mapping,   \* PIIMasker.reverse_mapping
    call,              \* per caller: position and locals of its mask call
    um,                \* position, arguments and results of the unmask calls
    use_groq,          \* bot: self.use_groq; app: an api_key is configured
    session_mapping,   \* bot: self.session_mapping; app: st.session_state.pii_mapping
    conversation_history, \* bot: self.conversation_history
    messages,          \* app: st.session_state.messages
    chat_history,      \* bot: groq_client.conversation_history;
                       \* app: st.session_state.chat_history
    turn,              \* position and locals of process_message / the chat handler
    turns,             \* messages processed so far
    sent,              \* the conversation turns of the last request to the model
    returned           \* the mapping items mask returned and the session merged
                       \* since the last reset

sessionVars ==
    <<use_groq, session_mapping, conversation_history, messages, chat_history,
      turn, turns, sent, returned>>

vars == <<site, current_mapping, reverse_mapping, call, um, sessionVars>>

\* a caller that is not calling
\* hits, prov and claim are history: the matches processed so far (category
\* label, matched value, token spliced in), for each
\* character of the working copy the index it had in the input (0 for the
\* characters of an inserted token), and for each character of the input
\* the label of the category that replaced it (<<>> while it stands)
Idle ==
    [pc |-> "off", text |-> <<>>, masked_text |-> <<>>, cat |-> 0,
     matches |-> <<>>, ret_text |-> <<>>, ret_mapping |-> EmptyDict,
     hits |-> <<>>, prov |-> <<>>, claim |-> <<>>]

NoUnmask ==
    [pc |-> "idle", text |-> <<>>, mapping |-> EmptyDict,
     result |-> <<>>, again |-> <<>>]

\* process_message / the chat handler between two messages
NoTurn ==
    [pc |-> "idle", user_input |-> <<>>, masked_input |-> <<>>,
     mapping |-> EmptyDict, masked_response |-> <<>>, final_response |-> <<>>]

\* a session right after construction: CustomerSupportBot.__init__, or the
\* initialisation of st.session_state
FreshSession ==
    /\ session_mapping = EmptyDict
    /\ conversation_history = <<>>
    /\ messages = <<>>
    /\ chat_history = <<>>
    /\ turn = NoTurn
    /\ turns = 0
    /\ sent = <<>>
    /\ returned = {}

\* ------------------------------------------------------------------------
\* mask, one step at a time
\* ------------------------------------------------------------------------
\* self.current_mapping = {}; self.reverse_mapping = {}; masked_text = text
MaskEnter(c) ==
    /\ call[c].pc = "call"
    /\ current_mapping' = ResetMapping(current_mapping)
    /\ reverse_mapping' = ResetMapping(reverse_mapping)
    /\ call' = [call EXCEPT ![c].pc = "scan", ![c].cat = 1,
                            ![c].masked_text = call[c].text,
                            ![c].hits = <<>>,
                            ![c].prov = [i \in 1..Len(call[c].text) |-> i],
                            ![c].claim = [i \in 1..Len(call[c].text) |-> <<>>]]
    /\ UNCHANGED <<site, um, sessionVars>>

\* for pii_type, pattern in self.patterns.items():
\*     matches = list(re.finditer(pattern, masked_text))
MaskScan(c) ==
    /\ call[c].pc = "scan"
    /\ call[c].cat <= Len(PatternItems(site))
    /\ LET ms == Reverse(Matches(PatternItems(site)[call[c].cat].pattern,
                                 call[c].masked_text))
       IN call' = IF ms = <<>>
                  THEN [call EXCEPT ![c].cat = call[c].cat + 1]
                  ELSE [call EXCEPT ![c].pc = "loop", ![c].matches = ms]
    /\ UNCHANGED <<site, current_mapping, reverse_mapping, um, sessionVars>>

\* one iteration of: for i, match in enumerate(reversed(matches)):
MaskMatch(c) ==
    /\ call[c].pc = "loop"
    /\ LET label == PatternItems(site)[call[c].cat].label
           m == Head(call[c].matches)
           r == ProcessMatch(label, m, call[c].masked_text,
                             current_mapping, reverse_mapping)
           token == TokenFor(label, m.value, current_mapping, reverse_mapping)
           rest == Tail(call[c].matches)
           replaced == {call[c].prov[p] : p \in m.start..(m.end - 1)}
       IN /\ current_mapping' = r.current_mapping
          /\ reverse_mapping' = r.reverse_mapping
          /\ call' = [call EXCEPT
                ![c].masked_text = r.masked_text,
                ![c].matches = rest,
                ![c].pc = IF rest = <<>> THEN "scan" ELSE "loop",
                ![c].cat = IF rest = <<>> THEN call[c].cat + 1 ELSE call[c].cat,
                ![c].hits = Append(call[c].hits,
                               [label |-> label, value |-> m.value,
                                token |-> token]),
                ![c].prov = SubSeq(call[c].prov, 1, m.start - 1)
                              \o [i \in 1..Len(token) |-> 0]
                              \o SubSeq(call[c].prov, m.end, Len(call[c].prov)),
                ![c].claim = [i \in DOMAIN call[c].claim |->
                                IF i \in replaced THEN label
                                ELSE call[c].claim[i]]]
    /\ UNCHANGED <<site, um, sessionVars>>

\* return masked_text, self.current_mapping.copy()
MaskReturn(c) ==
    /\ call[c].pc = "scan"
    /\ call[c].cat > Len(PatternItems(site))
    /\ call' = [call EXCEPT ![c].pc = "done",
                            ![c].ret_text = call[c].masked_text,
                            ![c].ret_mapping = current_mapping]
    /\ UNCHANGED <<site, current_mapping, reverse_mapping, um, sessionVars>>

\* ------------------------------------------------------------------------
\* unmask, applied to what mask returned
\* ------------------------------------------------------------------------
\* unmask(t, mapping) with the mapping caller 1 got from mask; t is the
\* masked text itself or a model's answer
UnmaskCall ==
    /\ call[1].pc = "done"
    /\ um.pc = "idle"
    /\ \E t \in {call[1].ret_text} \cup ResponseTexts :
          um' = [pc |-> "once", text |-> t, mapping |-> call[1].ret_mapping,
                 result |-> Unmask(t, call[1].ret_mapping), again |-> <<>>]
    /\ UNCHANGED <<site, current_mapping, reverse_mapping, call, sessionVars>>

\* unmask(result, mapping): a second application with the same mapping
UnmaskAgain ==
    /\ um.pc = "once"
    /\ um' = [um EXCEPT !.pc = "twice", !.again = Unmask(um.result, um.mapping)]
    /\ UNCHANGED <<site, current_mapping, reverse_mapping, call, sessionVars>>

\* ------------------------------------------------------------------------
\* The engine alone: one mask call on a fresh instance, then unmask
\* ------------------------------------------------------------------------
Init ==
    /\ site \in Sites
    /\ current_mapping = EmptyDict
    /\ reverse_mapping = EmptyDict
    /\ \E t \in InputTexts(MaxSegs) :
          call = [c \in Callers |->
                    IF c = 1 THEN [Idle EXCEPT !.pc = "call", !.text = t]
                    ELSE Idle]
    /\ um = NoUnmask
    /\ use_groq = TRUE
    /\ FreshSession

Next ==
    \/ MaskEnter(1)
    \/ MaskScan(1)
    \/ MaskMatch(1)
    \/ MaskReturn(1)
    \/ UnmaskCall
    \/ UnmaskAgain

Spec == Init /\ [][Next]_vars

\* ------------------------------------------------------------------------
\* Two mask calls on one PIIMasker instance, interleaved step by step
\* ------------------------------------------------------------------------
\* the texts of the two callers
ConcurrentTexts ==
    { <<"h", "i">>,
      <<"a", "@", "b", ".", "c", "o">>,
      <<"c", "@", "d", ".", "c", "o", " ", "5", "5", "5", "1", "2", "3", "4", "5", "6", "7">> }

InitConcurrent ==
    /\ site \in Sites
    /\ current_mapping = EmptyDict
    /\ reverse_mapping = EmptyDict
    /\ \E f \in [Callers -> ConcurrentTexts] :
          call = [c \in Callers |-> [Idle EXCEPT !.pc = "call", !.text = f[c]]]
    /\ um = NoUnmask
    /\ use_groq = TRUE
    /\ FreshSession

NextConcurrent ==
    \E c \in Callers :
        \/ MaskEnter(c)
        \/ MaskScan(c)
        \/ MaskMatch(c)
        \/ MaskReturn(c)

SpecConcurrent == InitConcurrent /\ [][NextConcurrent]_vars

\* ------------------------------------------------------------------------
\* Calls one after the other on one PIIMasker instance: caller 1's mask,
\* unmask calls, then caller 2's mask
\* ------------------------------------------------------------------------
\* the texts of the two calls
RepeatTexts == InputTexts(1) \cup ConcurrentTexts

InitRepeat ==
    /\ site \in Sites
    /\ current_mapping = EmptyDict
    /\ reverse_mapping = EmptyDict
    /\ \E f \in [Callers -> RepeatTexts] :
          call = [c \in Callers |-> [Idle EXCEPT !.pc = "call", !.text = f[c]]]
    /\ um = NoUnmask
    /\ use_groq = TRUE
    /\ FreshSession

\* a step of caller 2's mask, which begins once caller 1's has returned
LaterMask ==
    /\ call[1].pc = "done"
    /\ \/ MaskEnter(2)
       \/ MaskScan(2)
       \/ MaskMatch(2)
       \/ MaskReturn(2)

NextRepeat ==
    \/ MaskEnter(1)
    \/ MaskScan(1)
    \/ MaskMatch(1)
    \/ MaskReturn(1)
    \/ UnmaskCall
    \/ UnmaskAgain
    \/ LaterMask

SpecRepeat == InitRepeat /\ [][NextRepeat]_vars

\* ------------------------------------------------------------------------
\* The conversation orchestrators
\* ------------------------------------------------------------------------
\* messages one session may process
MaxTurns == 2

\* what the user types in a session
UserInputs ==
    { <<"h", "i">>,
      <<"l", "o", "g", "i", "n">>,
      <<"a", "@", "b", ".", "c", "o">>,
      <<"c", "@", "d", ".", "c", "o">>,
      <<"c", "a", "r", "d", " ", "5", "5", "5", "1", "2", "3", "4", "5", "6", "7">> }

\* what the model may answer to msg: an echo, or a text that uses a token
Answers(msg) ==
    { msg, <<"o", "k", " ", "<", "E", "M", "A", "I", "L", "_", "1", ">">> }

\* f"Error connecting to Groq API: {e}" / f"Error: {e}"
ErrorText == <<"E", "r", "r", "o", "r">>

UpperSeq ==
    <<"A", "B", "C", "D", "E", "F", "G", "H", "I", "J", "K", "L", "M",
      "N", "O", "P", "Q", "R", "S", "T", "U", "V", "W", "X", "Y", "Z">>

LowerSeq ==
    <<"a", "b", "c", "d", "e", "f", "g", "h", "i", "j", "k", "l", "m",
      "n", "o", "p", "q", "r", "s", "t", "u", "v", "w", "x", "y", "z">>

\* str.lower
ToLower(t) ==
    [i \in DOMAIN t |->
        IF t[i] \in Upper
        THEN LowerSeq[CHOOSE k \in DOMAIN UpperSeq : UpperSeq[k] = t[i]]
        ELSE t[i]]

\* x in t
Contains(t, x) ==
    \E p \in 1..(Len(t) - Len(x) + 1) : SubSeq(t, p, p + Len(x) - 1) = x

\* _simulated_response: the canned answers, chosen by keyword (their prose
\* is abridged here; the tokens they use, and their order, are the source's)
SimulatedResponse(masked_message) ==
    LET low == ToLower(masked_message)
    IN IF \/ Contains(low, <<"a", "c", "c", "o", "u", "n", "t">>)
          \/ Contains(low, <<"l", "o", "g", "i", "n">>)
          \/ Contains(low, <<"a", "c", "c", "e", "s", "s">>)
       THEN <<"t", "o", " ", "<", "E", "M", "A", "I", "L", "_", "1", ">", " ",
              "<", "P", "H", "O", "N", "E", "_", "1", ">">>
       ELSE IF \/ Contains(low, <<"p", "a", "y", "m", "e", "n", "t">>)
               \/ Contains(low, <<"c", "a", "r", "d">>)
               \/ Contains(low, <<"c", "h", "a", "r", "g", "e">>)
            THEN <<"<", "C", "C", "_", "1", ">", " ",
                   "<", "E", "M", "A", "I", "L", "_", "1", ">">>
            ELSE <<"n", "o", "t", "e", "d">>

\* a message handler that hands the user's own text to the model
LLMMessageRaw(t) == t.user_input

\* the text process_message / the chat handler passes on to the model
LLMMessage(t) == t.masked_input

\* a merge that is forgotten
UpdateSkipped(d, other) == d

\* self.session_mapping.update(mapping) /
\* st.session_state.pii_mapping.update(new_mapping)
MergeMapping(d, other) == Update(d, other)

\* masked_input, mapping = self.masker.mask(user_input); the app's handler
\* then stores the user message with its masked version.  The bot keeps one
\* PIIMasker for its lifetime; the app builds one in every run of its script.
ProcessMask ==
    /\ turn.pc = "idle"
    /\ turns < MaxTurns
    /\ \E u \in UserInputs :
          LET st == IF site = "bot"
                    THEN MaskOn(site, u, current_mapping, reverse_mapping)
                    ELSE MaskRun(site, u)
          IN /\ current_mapping' = st.current_mapping
             /\ reverse_mapping' = st.reverse_mapping
             /\ turn' = [NoTurn EXCEPT !.pc = "masked", !.user_input = u,
                                       !.masked_input = st.masked_text,
                                       !.mapping = st.current_mapping]
             /\ messages' = IF site = "app"
                            THEN Append(messages,
                                   [role |-> "user", content |-> u,
                                    masked_content |-> st.masked_text])
                            ELSE messages
    /\ UNCHANGED <<site, call, um, use_groq, session_mapping,
                   conversation_history, chat_history, turns, sent, returned>>

\* the session mapping takes the items of the per-call mapping
ProcessUpdate ==
    /\ turn.pc = "masked"
    /\ session_mapping' = MergeMapping(session_mapping, turn.mapping)
    /\ returned' = returned \cup {turn.mapping[i] : i \in DOMAIN turn.mapping}
    /\ turn' = [turn EXCEPT !.pc = "updated"]
    /\ UNCHANGED <<site, current_mapping, reverse_mapping, call, um, use_groq,
                   conversation_history, messages, chat_history, turns, sent>>

\* masked_response = self._call_llm(masked_input) with a Groq client, or the
\* app's chat_history.append + client.chat(messages): the user turn joins the
\* history, the history is sent, and the answer (or an error text) comes
\* back; GroqClient.chat of the bot records the answer unless the request
\* failed
ProcessCallLLM ==
    /\ turn.pc = "updated"
    /\ use_groq
    /\ LET msg == LLMMessage(turn)
           hist == Append(chat_history, [role |-> "user", content |-> msg])
       IN /\ sent' = hist
          /\ \E ok \in BOOLEAN : \E r \in Answers(msg) :
                LET answer == IF ok THEN r ELSE ErrorText
                IN /\ turn' = [turn EXCEPT !.pc = "responded",
                                           !.masked_response = answer]
                   /\ chat_history' =
                         IF site = "bot" /\ ok
                         THEN Append(hist, [role |-> "assistant", content |-> answer])
                         ELSE hist
    /\ UNCHANGED <<site, current_mapping, reverse_mapping, call, um, use_groq,
                   session_mapping, conversation_history, messages, turns,
                   returned>>

\* masked_response = self._call_llm(masked_input) without a Groq client:
\* a canned answer, nothing leaves the process
ProcessSimulated ==
    /\ turn.pc = "updated"
    /\ ~use_groq
    /\ turn' = [turn EXCEPT !.pc = "responded",
                            !.masked_response = SimulatedResponse(LLMMessage(turn))]
    /\ UNCHANGED <<site, current_mapping, reverse_mapping, call, um, use_groq,
                   session_mapping, conversation_history, messages,
                   chat_history, turns, sent, returned>>

\* final_response = unmask(masked_response, session mapping), and the turn
\* is stored
ProcessUnmask ==
    /\ turn.pc = "responded"
    /\ LET final == Unmask(turn.masked_response, session_mapping)
       IN IF site = "bot"
          THEN /\ conversation_history' =
                     Append(conversation_history,
                            [user_raw |-> turn.user_input,
                             user_masked |-> turn.masked_input,
                             bot_masked |-> turn.masked_response,
                             bot_final |-> final])
               /\ UNCHANGED <<messages, chat_history>>
          ELSE /\ chat_history' =
                     Append(chat_history,
                            [role |-> "assistant",
                             content |-> turn.masked_response])
               /\ messages' =
                     Append(messages,
                            [role |-> "assistant", content |-> final,
                             masked_content |-> turn.masked_response])
               /\ UNCHANGED conversation_history
    /\ turn' = NoTurn
    /\ turns' = turns + 1
    /\ UNCHANGED <<site, current_mapping, reverse_mapping, call, um, use_groq,
                   session_mapping, sent, returned>>

\* clear_session / the "Clear Chat" button
ClearSession ==
    /\ turn.pc = "idle"
    /\ session_mapping' = EmptyDict
    /\ conversation_history' = <<>>
    /\ messages' = <<>>
    /\ chat_history' = <<>>
    /\ sent' = <<>>
    /\ returned' = {}
    /\ UNCHANGED <<site, current_mapping, reverse_mapping, call, um, use_groq,
                   turn, turns>>

\* A session of either program.  The app handles a message only when an
\* api key is configured.
InitSession ==
    /\ site \in Sites
    /\ use_groq \in (IF site = "bot" THEN BOOLEAN ELSE {TRUE})
    /\ current_mapping = EmptyDict
    /\ reverse_mapping = EmptyDict
    /\ call = [c \in Callers |-> Idle]
    /\ um = NoUnmask
    /\ FreshSession

NextSession ==
    \/ ProcessMask
    \/ ProcessUpdate
    \/ ProcessCallLLM
    \/ ProcessSimulated
    \/ ProcessUnmask
    \/ ClearSession

SpecSession == InitSession /\ [][NextSession]_vars

\* ------------------------------------------------------------------------
\* Token grammar <CATEGORY_N>, and helpers of the properties
\* ------------------------------------------------------------------------
Labels == {BotPatterns[i].label : i \in DOMAIN BotPatterns}

\* x has the form <CATEGORY_N>: a label of the table, "_", decimal digits
IsTokenText(x) ==
    \E label \in Labels :
        /\ StartsWith(x, TokenPrefix(label))
        /\ Len(x) >= Len(TokenPrefix(label)) + 2
        /\ x[Len(x)] = ">"
        /\ \A i \in (Len(TokenPrefix(label)) + 1)..(Len(x) - 1) : x[i] \in Digit

\* the spans <<first, last>> of the token-shaped substrings of t
TokenSpans(t) ==
    {sp \in {p \in 1..Len(t) : t[p] = "<"} \X {e \in 1..Len(t) : t[e] = ">"} :
        sp[1] < sp[2] /\ IsTokenText(SubSeq(t, sp[1], sp[2]))}

\* t is made of plain text and PII instances only
PlainAndPII(t) == TokenSpans(t) = {}

\* start positions of the occurrences of x in t
Occurrences(t, x) ==
    {p \in 1..(Len(t) - Len(x) + 1) : SubSeq(t, p, p + Len(x) - 1) = x}

\* position of category label in table order
LabelIndex(s, label) ==
    CHOOSE a \in DOMAIN Patterns(s) : Patterns(s)[a].label = label

\* spans <<start, end>> (end exclusive) at which the rule of category a
\* matches in t, one per start position
RuleSpans(s, a, t) ==
    {sp \in {<<p, MatchAt(Patterns(s)[a].pattern, 1, t, p)>> : p \in 1..Len(t)} :
        sp[2] # 0}

\* the pairs <<a, span>> of a category (by its place in the table) and a
\* span its rule matches in t
AllSpans(s, t) ==
    UNION {{<<a, sp>> : sp \in RuleSpans(s, a, t)} : a \in DOMAIN Patterns(s)}

Overlap(x, y) == x[1] < y[2] /\ y[1] < x[2]

\* ------------------------------------------------------------------------
\* Properties of the engine
\* ------------------------------------------------------------------------
\* C1. Round trip: when the input holds only plain text and PII instances,
\* unmasking the masked text with the mapping mask returned gives the input
\* back.
C1_RoundTrip ==
    (um.pc # "idle" /\ um.text = call[1].ret_text /\ PlainAndPII(call[1].text))
        => um.result = call[1].text

C1_Witness ==
    /\ um.pc = "once"
    /\ um.text = call[1].ret_text
    /\ PlainAndPII(call[1].text)
    /\ Len(call[1].ret_mapping) >= 2
    /\ Len(call[1].hits) >= 3
    /\ um.result = call[1].text

\* C3. Numbering: within one mask call the tokens of a category are numbered
\* in the order in which their values first appear in the input, left to
\* right.
C3_NumberedLeftToRight ==
    call[1].pc = "done" =>
        LET m == call[1].ret_mapping
        IN \A i, j \in DOMAIN m : \A label \in Labels : \A a, b \in 1..Len(m) :
              (/\ m[i].key = TokenText(label, a)
               /\ m[j].key = TokenText(label, b)
               /\ a < b)
              => Min(Occurrences(call[1].text, m[i].val))
                   < Min(Occurrences(call[1].text, m[j].val))

\* C4. Token stability under repetition: a value matched at several places
\* has exactly one entry in the returned mapping, and each of its places
\* holds that entry's token in the masked text.
C4_OneTokenPerValue ==
    call[1].pc = "done" =>
        LET c == call[1]
        IN \A k \in DOMAIN c.hits :
              LET h == c.hits[k]
                  entries == {i \in DOMAIN c.ret_mapping :
                                 c.ret_mapping[i].val = h.value}
              IN /\ Cardinality(entries) = 1
                 /\ \A i \in entries : c.ret_mapping[i].key = h.token
                 /\ PlainAndPII(c.text) =>
                       Cardinality(Occurrences(c.ret_text, h.token))
                         = Cardinality({n \in DOMAIN c.hits :
                                           c.hits[n].value = h.value})

C4_Witness ==
    /\ call[1].pc = "done"
    /\ PlainAndPII(call[1].text)
    /\ Len(call[1].hits) = 3
    /\ Len(call[1].ret_mapping) = 2
    /\ call[1].hits[1].value = call[1].hits[3].value
    /\ Cardinality(Occurrences(call[1].ret_text, call[1].hits[1].token)) = 2

\* C8. Category precedence: where the rules of two categories match at
\* overlapping spans of the input, the characters are replaced under the
\* earlier category (or one before it), the token put there carries that
\* label, and no match of any category covers a character of a token that
\* was already inserted.
C8_Precedence ==
    LET c == call[1]
    IN /\ c.pc = "loop" =>
             \A k \in DOMAIN c.matches :
                \A p \in c.matches[k].start..(c.matches[k].end - 1) :
                   c.prov[p] # 0
       /\ (c.pc = "done" /\ um.pc = "idle") =>
             LET all == AllSpans(site, c.text)
             IN \A x \in all :
                   (\E y \in all : y[1] > x[1] /\ Overlap(x[2], y[2]))
                   => \A q \in x[2][1]..(x[2][2] - 1) :
                         /\ c.claim[q] # <<>>
                         /\ LabelIndex(site, c.claim[q]) <= x[1]
       /\ \A k \in DOMAIN c.hits :
             /\ StartsWith(c.hits[k].token, <<"<">>)
             /\ \E label \in Labels :
                   /\ StartsWith(c.hits[k].token, TokenPrefix(label))
                   /\ LabelIndex(site, label) <= LabelIndex(site, c.hits[k].label)

C8_Witness ==
    /\ site = "bot"
    /\ call[1].pc = "done"
    /\ \E x \in RuleSpans(site, 2, call[1].text) :
          /\ x \in RuleSpans(site, 7, call[1].text)
          /\ \A q \in x[1]..(x[2] - 1) : call[1].claim[q] = BotPatterns[2].label
    /\ \E k \in DOMAIN call[1].hits : call[1].hits[k].label = BotPatterns[7].label

RECURSIVE Sum(_, _)
Sum(f, S) ==
    IF S = {} THEN 0
    ELSE LET x == CHOOSE y \in S : TRUE IN f[x] + Sum(f, S \ {x})

\* the token-shaped substrings of t that are keys of mapping, by span
KnownSpans(t, mapping) ==
    {sp \in TokenSpans(t) : HasKey(mapping, SubSeq(t, sp[1], sp[2]))}

\* by how much unmask moves the character at position p of t: each known
\* token to its left is exchanged for its value
Shift(t, mapping, p) ==
    LET left == {sp \in KnownSpans(t, mapping) : sp[1] < p}
    IN Sum([sp \in left |->
               Len(Get(mapping, SubSeq(t, sp[1], sp[2]))) - (sp[2] - sp[1] + 1)],
           left)

\* C10. Unknown token pass-through: every token-shaped substring of the text
\* that is not a key of the mapping stands verbatim in the result, moved only
\* by the replacements to its left; with an empty mapping the text comes
\* back unchanged.
C10_UnknownTokensPassThrough ==
    um.pc = "once" =>
        /\ um.mapping = EmptyDict => um.result = um.text
        /\ \A sp \in TokenSpans(um.text) \ KnownSpans(um.text, um.mapping) :
              LET d == Shift(um.text, um.mapping, sp[1])
              IN /\ sp[2] + d <= Len(um.result)
                 /\ SubSeq(um.result, sp[1] + d, sp[2] + d)
                      = SubSeq(um.text, sp[1], sp[2])

C10_Witness ==
    /\ um.pc = "once"
    /\ um.mapping # EmptyDict
    /\ \E sp \in TokenSpans(um.text) \ KnownSpans(um.text, um.mapping) :
          /\ Shift(um.text, um.mapping, sp[1]) > 0
          /\ SubSeq(um.result, sp[1] + Shift(um.text, um.mapping, sp[1]),
                    sp[2] + Shift(um.text, um.mapping, sp[1]))
               = SubSeq(um.text, sp[1], sp[2])

\* the dictionaries with the items of d, in every iteration order
Orders(d) ==
    {[i \in DOMAIN d |-> d[f[i]]] :
        f \in {g \in [DOMAIN d -> DOMAIN d] :
                  \A i, j \in DOMAIN d : i # j => g[i] # g[j]}}

C12_NoMatchNoChange ==
    (call[1].pc = "done" /\ um.pc = "idle") =>
        LET c == call[1]
            kept == {i \in 1..Len(c.text) : c.claim[i] = <<>>}
            stay == {p \in 1..Len(c.ret_text) : c.prov[p] # 0}
        IN /\ Len(c.prov) = Len(c.ret_text)
           /\ \A p \in stay : c.ret_text[p] = c.text[c.prov[p]]
           /\ {c.prov[p] : p \in stay} = kept
           /\ \A p, q \in stay : p < q => c.prov[p] < c.prov[q]
           /\ Len(c.ret_text) - Cardinality(stay)
                 = Sum([k \in DOMAIN c.hits |-> Len(c.hits[k].token)],
                       DOMAIN c.hits)
           /\ AllSpans(site, c.text) = {}
                 => (c.ret_text = c.text /\ c.ret_mapping = EmptyDict)

C12_Witness ==
    /\ call[1].pc = "done"
    /\ Len(call[1].hits) = 2
    /\ call[1].claim[1] # <<>>
    /\ call[1].claim[Len(call[1].text)] # <<>>
    /\ \E i \in 1..Len(call[1].text) :
          /\ call[1].claim[i] = <<>>
          /\ call[1].text[i] \in Lower
          /\ \E p \in 1..Len(call[1].ret_text) :
                call[1].prov[p] = i /\ call[1].ret_text[p] = call[1].text[i]

\* C14. Token uniqueness and dense numbering within one mask call: after
\* every step of mask the forward mapping and the reverse index are inverse
\* bijections (no token with two values, no value with two tokens), every
\* processed match has its value recorded under the token spliced in for
\* it, and the tokens of each category are numbered exactly 1..n, n being
\* the number of distinct values matched under the category so far.
C14_TokensUniqueAndDense ==
    LET cm == current_mapping
        rm == reverse_mapping
        hits == call[1].hits
    IN /\ Len(cm) = Len(rm)
       /\ \A i, j \in DOMAIN cm :
             i # j => (cm[i].key # cm[j].key /\ cm[i].val # cm[j].val)
       /\ \A i \in DOMAIN cm :
             HasKey(rm, cm[i].val) /\ Get(rm, cm[i].val) = cm[i].key
       /\ \A j \in DOMAIN rm :
             HasKey(cm, rm[j].val) /\ Get(cm, rm[j].val) = rm[j].key
       /\ \A k \in DOMAIN hits :
             HasKey(cm, hits[k].token) /\ Get(cm, hits[k].token) = hits[k].value
       /\ \A label \in Labels :
             LET n == Cardinality({hits[k].value :
                          k \in {h \in DOMAIN hits : hits[h].label = label}})
             IN /\ CountPrefix(cm, TokenPrefix(label)) = n
                /\ \A a \in 1..n : HasKey(cm, TokenText(label, a))

C14_Witness ==
    /\ call[1].pc = "loop"
    /\ Len(current_mapping) = 2
    /\ Keys(current_mapping) = {TokenText(BotPatterns[1].label, 1),
                                TokenText(BotPatterns[1].label, 2)}
    /\ HasKey(reverse_mapping, Head(call[1].matches).value)
    /\ Get(current_mapping, Get(reverse_mapping, Head(call[1].matches).value))
          = Head(call[1].matches).value

\* ------------------------------------------------------------------------
\* Properties of the orchestrators
\* ------------------------------------------------------------------------
\* the token-shaped substrings of t
TokensIn(t) == {SubSeq(t, sp[1], sp[2]) : sp \in TokenSpans(t)}

IsUser(m) == m.role = "user"

IsAssistant(m) == m.role = "assistant"

\* the user's own texts of this session, oldest first: user_raw of the stored
\* turns and the message being processed (bot), or the content of the user
\* messages (app)
RawInputs ==
    IF site = "bot"
    THEN [i \in DOMAIN conversation_history |-> conversation_history[i].user_raw]
           \o (IF turn.pc = "idle" THEN <<>> ELSE <<turn.user_input>>)
    ELSE LET us == SelectSeq(messages, IsUser)
         IN [i \in DOMAIN us |-> us[i].content]

\* the answers the model gave in this session, as received
MaskedAnswers ==
    {turn.masked_response}
      \cup {conversation_history[i].bot_masked : i \in DOMAIN conversation_history}
      \cup {messages[i].masked_content :
               i \in {j \in DOMAIN messages : IsAssistant(messages[j])}}

\* C2. The session mapping is the union of the per-call mappings: every item
\* a mask call of the session returned is still there, with its value, until
\* the session is reset.
C2_SessionMappingIsUnion ==
    \A e \in returned :
        HasKey(session_mapping, e.key) /\ Get(session_mapping, e.key) = e.val

\* C5. Tokens are recorded before they are referenced: when the masked user
\* text is about to go to the model, and when the answer is about to be
\* unmasked, every token in the masked user text is a key of the session
\* mapping.
C5_TokensRecordedBeforeUse ==
    turn.pc \in {"updated", "responded"} =>
        TokensIn(turn.masked_input) \subseteq Keys(session_mapping)

C5_Witness ==
    /\ turn.pc = "updated"
    /\ turns >= 1
    /\ Len(session_mapping) >= 2
    /\ TokensIn(turn.masked_input) # {}
    /\ TokensIn(turn.masked_input) \subseteq Keys(session_mapping)

\* C6. Only masked text reaches the model: in every request the user turns
\* are, in order, mask's output for the user's texts of the session, the
\* assistant turns are answers as the model gave them, no user turn holds a
\* value mask recorded, and without a Groq client nothing is sent at all.
C6_OnlyMaskedTextSent ==
    LET us == SelectSeq(sent, IsUser)
        as == SelectSeq(sent, IsAssistant)
    IN /\ Len(us) <= Len(RawInputs)
       /\ \A k \in DOMAIN us :
             /\ us[k].content = Mask(site, RawInputs[k]).masked_text
             /\ \A e \in returned : ~Contains(us[k].content, e.val)
       /\ \A k \in DOMAIN as : as[k].content \in MaskedAnswers
       /\ ~use_groq => sent = <<>>

C6_Witness ==
    /\ Len(sent) = 3
    /\ sent[1].role = "user"
    /\ sent[1].content # RawInputs[1]
    /\ sent[2].role = "assistant"
    /\ Unmask(sent[2].content, session_mapping) # sent[2].content
    /\ sent[3].content # RawInputs[2]
    /\ sent[3].content = Mask(site, RawInputs[2]).masked_text

\* the masked user texts of this session, oldest first, in step with
\* RawInputs: user_masked of the stored turns and the masked input of the
\* message being processed (bot), or the masked_content of the user
\* messages (app)
MaskedInputs ==
    IF site = "bot"
    THEN [i \in DOMAIN conversation_history |->
             conversation_history[i].user_masked]
           \o (IF turn.pc = "idle" THEN <<>> ELSE <<turn.masked_input>>)
    ELSE LET us == SelectSeq(messages, IsUser)
         IN [i \in DOMAIN us |-> us[i].masked_content]

\* C15. Tokens are stable across the turns of one session: between two
\* resets a value masked in two turns has the same token in both, a token
\* returned in two turns stands for the same value in both, and between
\* messages the session mapping unmasks the masked text of every turn of
\* the session to the text the user typed.
C15_TokensStableAcrossTurns ==
    /\ \A e, f \in returned : e.val = f.val => e.key = f.key
    /\ \A e, f \in returned : e.key = f.key => e.val = f.val
    /\ turn.pc = "idle" =>
          \A k \in DOMAIN MaskedInputs :
              Unmask(MaskedInputs[k], session_mapping) = RawInputs[k]

\* ------------------------------------------------------------------------
\* Properties of calls that follow one another
\* ------------------------------------------------------------------------
\* C13. The engine is stateless across calls: a mask call that follows
\* earlier mask and unmask calls on the same instance returns the masked
\* text and the mapping a freshly created instance returns for its text, and
\* the earlier call's results still are what that call returned.
C13_StatelessAcrossCalls ==
    /\ call[2].pc = "done" =>
          LET fresh == MaskRun(site, call[2].text)
          IN /\ call[2].ret_text = fresh.masked_text
             /\ call[2].ret_mapping = fresh.current_mapping
    /\ (call[1].pc = "done" /\ call[2].pc # "call") =>
          LET fresh == MaskRun(site, call[1].text)
          IN /\ call[1].ret_text = fresh.masked_text
             /\ call[1].ret_mapping = fresh.current_mapping

C13_Witness ==
    /\ call[2].pc = "done"
    /\ um.pc = "twice"
    /\ Len(call[1].ret_mapping) = 2
    /\ Len(call[2].ret_mapping) = 1
    /\ call[1].ret_mapping[1].key = call[2].ret_mapping[1].key
    /\ call[1].ret_mapping[1].val # call[2].ret_mapping[1].val
    /\ call[1].ret_mapping = Mask(site, call[1].text).mapping
    /\ call[2].ret_mapping = Mask(site, call[2].text).mapping

\* ------------------------------------------------------------------------
\* Properties of interleaved calls
\* ------------------------------------------------------------------------
\* C7. Per-call state does not leak across concurrent calls: each of two
\* interleaved mask calls returns the masked text and the mapping it returns
\* when run alone, and its mapping holds no value of the other call's text.
C7_CallsIsolated ==
    \A c \in Callers :
        call[c].pc = "done" =>
            /\ call[c].ret_text = Mask(site, call[c].text).masked_text
            /\ call[c].ret_mapping = Mask(site, call[c].text).mapping
            /\ \A v \in Values(call[c].ret_mapping) : Contains(call[c].text, v)

====
